---- MODULE Spec2Model ----
(***************************************************************************)
(* A model of sn2ke.py: the Viewable / ViewableContainer entity model, the *)
(* Snake body, the Model (world) with its collision dispatch, and the      *)
(* Controller's threads (key press monitor, one movement loop per snake,   *)
(* render loop, round coordinator).                                        *)
(*                                                                         *)
(* Coordinates are <<row, column>> pairs, exactly as the (xy[0], xy[1])    *)
(* pairs of the program.  A Python container of object references is a     *)
(* sequence; an object is identified by its place in the container that    *)
(* owns it.                                                                *)
(***************************************************************************)
EXTENDS Integers, Sequences, FiniteSets, TLC

(***************************************************************************)
(* Bounds of the model.                                                    *)
(***************************************************************************)
\* Model(width=..., height=...): the size of the bounding box.
width == 3
height == 6
\* Model(length=...): the initial number of segments of each snake.
length == 3
\* Model(n_apples=..., n_blocks=...): the initial random apples and blocks.
n_apples == 1
n_blocks == 0
\* The number of advances all movement loops may perform together.
MaxTicks == 3
\* The number of key events all key press loops may take together.
MaxKeys == 2
\* The number of apples that may be eaten (each adds one block) in a world.
MaxEaten == 2
\* Unit-level specification: longest snake constructed, operations applied.
MaxLen == 4
MaxOps == 4
\* The number of rounds Controller.start_game may play.
MaxRounds == 2
\* The advances and key events of the specifications with threads.
MaxThreadTicks == 2
MaxThreadKeys == 1
\* The advances of the specification with several rounds.
MaxRestartTicks == 1
\* The advances and key events of the specification with statement steps.
MaxStepTicks == 2
MaxStepKeys == 1

(***************************************************************************)
(* Model.LEFT .. Model.DIRECTIONS                                          *)
(***************************************************************************)
LEFT == <<0, -1>>
RIGHT == <<0, 1>>
UP == <<-1, 0>>
DOWN == <<1, 0>>
DIRECTIONS == <<LEFT, RIGHT, UP, DOWN>>

Range(f) == {f[i] : i \in DOMAIN f}

\* View.COLORS, View.HEAD_COLORS, View.TAIL_COLORS.  None is the Python None.
None == -1
white == 0
red == 1
green == 2
yellow == 3
cyan == 4
blue == 5
HEAD_COLORS == <<green, cyan>>
TAIL_COLORS == <<yellow, blue>>
\* Python truthiness of a colour value (None and 0 are falsy).
Truthy(c) == c # None /\ c # 0

(***************************************************************************)
(* SnakePiece, TailPiece, HeadPiece.  A piece is [xy, dxdy, color].        *)
(***************************************************************************)
\* An opposite test that compares each component with the other axis.
is_opposite_direction_crossed(piece, dxdy) ==
    dxdy[1] = -piece.dxdy[2] \/ dxdy[2] = -piece.dxdy[1]

\* An opposite test that holds for every request.
is_opposite_direction_always(piece, dxdy) == TRUE

\* SnakePiece.is_opposite_direction: per-axis test joined by "or".
is_opposite_direction(piece, dxdy) ==
    dxdy[1] = -piece.dxdy[1] \/ dxdy[2] = -piece.dxdy[2]

\* The SnakePiece.dxdy setter: the assignment is dropped when
\* is_opposite_direction holds.
set_piece_dxdy(piece, dxdy) ==
    IF ~is_opposite_direction(piece, dxdy)
    THEN [piece EXCEPT !.dxdy = dxdy]
    ELSE piece

\* A move of two cells along the piece's own heading.
SnakePiece_move_twice(piece) ==
    [piece EXCEPT !.xy = <<piece.xy[1] + 2 * piece.dxdy[1], piece.xy[2] + 2 * piece.dxdy[2]>>]

\* SnakePiece.move: one cell along the piece's own heading.
SnakePiece_move(piece) ==
    [piece EXCEPT !.xy = <<piece.xy[1] + piece.dxdy[1], piece.xy[2] + piece.dxdy[2]>>]

\* HeadPiece(parent, xy=xy, dxdy=dxdy): colour is HeadPiece.DEFAULT_COLOR.
HeadPiece(xy, dxdy) == [xy |-> xy, dxdy |-> dxdy, color |-> yellow]

\* A tail piece built without a heading.
TailPiece_stationary(leader) ==
    [xy |-> <<leader.xy[1] - leader.dxdy[1], leader.xy[2] - leader.dxdy[2]>>,
     dxdy |-> <<0, 0>>,
     color |-> white]

\* TailPiece(parent, leader): one cell behind the leader, the leader's heading,
\* Viewable's default colour 0.
TailPiece(leader) ==
    [xy |-> <<leader.xy[1] - leader.dxdy[1], leader.xy[2] - leader.dxdy[2]>>,
     dxdy |-> leader.dxdy,
     color |-> white]

\* TailPiece.move: (self.dxdy, self.xy) = (leader.dxdy[:], leader.xy[:]);
\* the heading goes through the guarded setter, the position does not.
TailPiece_move(piece, leader) ==
    [set_piece_dxdy(piece, leader.dxdy) EXCEPT !.xy = leader.xy]

\* TailPiece.icon
TailPiece_icon(piece) ==
    IF piece.dxdy[1] # 0 THEN "|"
    ELSE IF piece.dxdy[2] # 0 THEN "-"
    ELSE "Exception"

\* HeadPiece.icon
HeadPiece_icon(piece) ==
    IF piece.dxdy = DOWN THEN "V"
    ELSE IF piece.dxdy = UP THEN "^"
    ELSE IF piece.dxdy = RIGHT THEN ">"
    ELSE IF piece.dxdy = LEFT THEN "<"
    ELSE "Exception"

(***************************************************************************)
(* Snake.  [xy, _dxdy, length, head, tail, dead, keymap]; tail[1] follows   *)
(* the head, tail[i] follows tail[i-1] (the leader references).            *)
(***************************************************************************)
\* The leader of tail piece i in the body (head, tail).
leader(head, tail, i) == IF i = 1 THEN head ELSE tail[i - 1]

RECURSIVE create_tail_from(_, _)
\* Snake.create_tail / new_tail_piece: the loop appending n more pieces, each
\* built from the current last piece.
create_tail_from(tail, n) ==
    IF n <= 0 THEN tail
    ELSE create_tail_from(Append(tail, TailPiece(tail[Len(tail)])), n - 1)

\* A tail that is one piece short.
create_tail_short(head, len) == create_tail_from(<<TailPiece(head)>>, len - 3)

\* Snake.create_tail: the first piece behind the head, then length - 2 more.
create_tail(head, len) == create_tail_from(<<TailPiece(head)>>, len - 2)

\* The Snake.tail_color setter: every tail piece takes the colour.
set_tail_color(snake, color) ==
    [snake EXCEPT !.tail = [i \in DOMAIN snake.tail |-> [snake.tail[i] EXCEPT !.color = color]]]

\* The Snake.tail_color getter: the first tail piece's colour.
tail_color(snake) == snake.tail[1].color

\* Snake.__init__
Snake(xy, dxdy, len, keymap) ==
    LET head == HeadPiece(xy, dxdy)
        s == [xy |-> xy, _dxdy |-> dxdy, length |-> len,
              head |-> head, tail |-> create_tail(head, len),
              dead |-> FALSE, keymap |-> keymap]
    IN set_tail_color(s, None)

RECURSIVE move_pieces(_, _, _)
\* The loop of Snake.move over an order of tail indices: each piece in turn
\* copies the current state of its leader.
move_pieces(head, tail, order) ==
    IF order = <<>> THEN tail
    ELSE LET i == Head(order)
         IN move_pieces(head,
                        [tail EXCEPT ![i] = TailPiece_move(tail[i], leader(head, tail, i))],
                        Tail(order))

\* self.tail[::-1]: the tail indices from the last piece to the first.
reversed_order(tail) == [k \in 1..Len(tail) |-> Len(tail) + 1 - k]

\* A move that walks the tail from the first piece to the last.
Snake_move_front_to_back(snake) ==
    [snake EXCEPT !.tail = move_pieces(snake.head, snake.tail, [k \in 1..Len(snake.tail) |-> k]),
                  !.head = SnakePiece_move(snake.head)]

\* Snake.move
Snake_move(snake) ==
    [snake EXCEPT !.tail = move_pieces(snake.head, snake.tail, reversed_order(snake.tail)),
                  !.head = SnakePiece_move(snake.head)]

\* The Snake.dxdy setter: the snake's own heading is stored unconditionally,
\* the head's through its guarded setter.
Snake_set_dxdy(snake, dxdy) ==
    [snake EXCEPT !._dxdy = dxdy, !.head = set_piece_dxdy(snake.head, dxdy)]

\* A new piece built behind the first tail piece instead of the last.
new_tail_piece_behind_first(snake) == TailPiece(snake.tail[1])

\* Snake.new_tail_piece
new_tail_piece(snake) == TailPiece(snake.tail[Len(snake.tail)])

\* Snake.add_tail_piece
add_tail_piece(snake) ==
    LET c == tail_color(snake)
        p == new_tail_piece(snake)
    IN [snake EXCEPT !.tail = Append(snake.tail, IF Truthy(c) THEN [p EXCEPT !.color = c] ELSE p)]

\* Snake.speed
VERTICAL_SPEED == 9
HORIZONTAL_SPEED == 15
speed(snake) == IF snake._dxdy[1] # 0 THEN VERTICAL_SPEED ELSE HORIZONTAL_SPEED

\* len(snake): head plus tail pieces.
Snake_len(snake) == 1 + Len(snake.tail)


(***************************************************************************)
(* State.                                                                  *)
(*   models       every Model constructed so far, one per round; a Model   *)
(*                is [switching, snakes, scores, apples, blocks]           *)
(*   cur          Controller.model: index into models, 0 for None         *)
(*   interrupted  Controller.interrupted                                   *)
(*   ticks        advances performed so far (bounded by MaxTicks)          *)
(*   keys         key events taken so far (bounded by MaxKeys)             *)
(*   main         where the coordinator thread (start_game/play_round) is  *)
(*   kpc          per round, where its _monitor_keypress thread is         *)
(*   wpc          per round and snake, where its movement thread is        *)
(*   held         per movement thread, the hit_item its loop body holds    *)
(*                while the statements of the body run one by one          *)
(*   test_snake   a Snake under direct use of its methods (unit level)     *)
(*   op           the last method applied to test_snake or group           *)
(*   nops         the number of methods applied to test_snake or group    *)
(*   group        a ViewableContainer under direct use of its methods      *)
(*   xy_type      the type of the xy argument test_snake was built with    *)
(***************************************************************************)
VARIABLES models, cur, interrupted, ticks, keys, main, kpc, wpc, held,
          test_snake, op, nops, group, xy_type

worldVars == <<models, cur, interrupted, ticks, keys>>
threadVars == <<main, kpc, wpc, held>>
unitVars == <<test_snake, op, nops, group, xy_type>>
vars == <<models, cur, interrupted, ticks, keys, main, kpc, wpc, held,
          test_snake, op, nops, group, xy_type>>

(***************************************************************************)
(* Controller key codes and key maps.                                      *)
(***************************************************************************)
STOP_KEY == "q"
CHOOSE_PAIRED_KEY == "KEY_UP"
CHOOSE_SWITCH_KEY == "KEY_DOWN"
CHOOSE_INDEPENDENT_KEY == "w"

PAIRED_KEY_MAPS ==
    << ("KEY_DOWN" :> DOWN) @@ ("KEY_UP" :> UP) @@ ("KEY_RIGHT" :> RIGHT) @@ ("KEY_LEFT" :> LEFT),
       ("KEY_DOWN" :> UP) @@ ("KEY_UP" :> DOWN) @@ ("KEY_RIGHT" :> LEFT) @@ ("KEY_LEFT" :> RIGHT) >>

INDEPENDENT_KEY_MAPS ==
    << ("w" :> UP) @@ ("s" :> DOWN) @@ ("a" :> LEFT) @@ ("d" :> RIGHT),
       ("KEY_UP" :> UP) @@ ("KEY_DOWN" :> DOWN) @@ ("KEY_LEFT" :> LEFT) @@ ("KEY_RIGHT" :> RIGHT) >>

\* The key codes stdscr.getch() may return.
Keys == {"q", "w", "s", "a", "d", "KEY_UP", "KEY_DOWN", "KEY_LEFT", "KEY_RIGHT"}

(***************************************************************************)
(* ViewableContainer.  An expanded container is a sequence of entity       *)
(* references [kind, owner, idx, xy].                                      *)
(***************************************************************************)
Max(S) == CHOOSE x \in S : \A y \in S : y <= x
Min(S) == CHOOSE x \in S : \A y \in S : x <= y

NoHit == [kind |-> "none", owner |-> 0, idx |-> 0, xy |-> <<0, 0>>]

\* ViewableContainer.__add__: a new container with the viewable in FRONT.
ViewableContainer_add(container, viewable) == <<viewable>> \o container

\* ViewableContainer.append
ViewableContainer_append(container, viewable) == Append(container, viewable)

\* A removal that deletes the last member, whatever was asked for.
ViewableContainer_remove_last(container, i) == SubSeq(container, 1, Len(container) - 1)

\* ViewableContainer.remove of the member at index i (list.index found it).
ViewableContainer_remove(container, i) ==
    [k \in 1..(Len(container) - 1) |-> IF k < i THEN container[k] ELSE container[k + 1]]

\* A map in which the first entity at a coordinate keeps the slot.
first_by_location(expanded) ==
    [c \in {expanded[k].xy : k \in DOMAIN expanded} |->
        expanded[Min({k \in DOMAIN expanded : expanded[k].xy = c})]]

\* ViewableContainer.viewables_by_location: dict.update over the expanded
\* viewables in order, so the last entity at a coordinate keeps the slot.
viewables_by_location(expanded) ==
    [c \in {expanded[k].xy : k \in DOMAIN expanded} |->
        expanded[Max({k \in DOMAIN expanded : expanded[k].xy = c})]]

\* ViewableContainer.get_collision: the map entry at xy, None on KeyError.
get_collision(expanded, xy) ==
    LET locations == viewables_by_location(expanded)
    IN IF xy \in DOMAIN locations THEN locations[xy] ELSE NoHit

(***************************************************************************)
(* Model (the world).                                                      *)
(***************************************************************************)
\* Model.Wall: wall_length cells from xy, downwards or rightwards.
Wall(xy, wall_length, is_vertical) ==
    [i \in 1..wall_length |->
        <<xy[1] + (IF is_vertical THEN i - 1 ELSE 0),
          xy[2] + (IF ~is_vertical THEN i - 1 ELSE 0)>>]

\* Model.make_walls: the four walls, concatenated in container order.
make_walls ==
    Wall(<<0, 0>>, width, FALSE) \o Wall(<<0, 0>>, height, TRUE)
      \o Wall(<<0, width>>, height, TRUE) \o Wall(<<height, 0>>, width, FALSE)

\* Model.get_starting_locations: <<xys, dxdys>>.
get_starting_locations(paired) ==
    IF ~paired
    THEN << << <<5, width \div 3>>, <<5, (2 * width) \div 3>> >>, <<DOWN, DOWN>> >>
    ELSE << << <<5, width \div 3>>, <<height - 5, (2 * width) \div 3>> >>, <<DOWN, UP>> >>

\* A draw over the whole bounding box, border included.
random_locations_with_border == {<<r, c>> : r \in 0..height, c \in 0..width}

\* Model.random_location: randint is inclusive at both ends.
random_locations == {<<r, c>> : r \in 1..(height - 1), c \in 1..(width - 1)}

\* The snake built by iteration i of the loop of Model.__init__.
starting_snake(i, paired, keymaps) ==
    LET st == get_starting_locations(paired)
        s0 == Snake(st[1][i], st[2][i], length, keymaps[i])
        s1 == [s0 EXCEPT !.head.color = HEAD_COLORS[i]]
    IN set_tail_color(s1, TAIL_COLORS[i])

\* Model.__init__ with the outcome of the random draws given: each new snake
\* and score is put in front of the earlier ones by "+=".
Model(paired, switching, keymaps, apples, blocks) ==
    [switching |-> switching,
     snakes |-> ViewableContainer_add(
                    ViewableContainer_add(<<>>, starting_snake(1, paired, keymaps)),
                    starting_snake(2, paired, keymaps)),
     scores |-> ViewableContainer_add(ViewableContainer_add(<<>>, 0), 0),
     apples |-> apples,
     blocks |-> blocks]

\* snake.tail[1:] as evaluated in Model.__init__: a new container holding the
\* tail pieces that existed then, without the first one.
tail_slice(snake, j) ==
    [k \in 1..(snake.length - 2) |->
        [kind |-> "tail", owner |-> j, idx |-> k + 1, xy |-> snake.tail[k + 1].xy]]

\* Model.collidable_objects, expanded: blocks, apples, walls, then the tail
\* slices of the snakes in container order.
collidable_objects(m) ==
    [k \in DOMAIN m.blocks |-> [kind |-> "block", owner |-> 0, idx |-> k, xy |-> m.blocks[k]]]
      \o [k \in DOMAIN m.apples |-> [kind |-> "apple", owner |-> 0, idx |-> k, xy |-> m.apples[k]]]
      \o [k \in DOMAIN make_walls |-> [kind |-> "wall", owner |-> 0, idx |-> k, xy |-> make_walls[k]]]
      \o tail_slice(m.snakes[1], 1) \o tail_slice(m.snakes[2], 2)

\* A game-over test that looks at the first snake of the container only.
is_game_over_first(m) == m.snakes[1].dead

\* Model.is_game_over
is_game_over(m) == \E j \in DOMAIN m.snakes : m.snakes[j].dead

\* A switch that exchanges the keymaps and leaves the colours.
switch_snakes_without_colors(m) ==
    [m EXCEPT !.snakes[1].keymap = m.snakes[2].keymap,
              !.snakes[2].keymap = m.snakes[1].keymap]

\* Model.switch_snakes: keymaps, head colours and tail colours exchanged.
switch_snakes(m) ==
    LET a == m.snakes[1]
        b == m.snakes[2]
        a1 == [a EXCEPT !.keymap = b.keymap, !.head.color = b.head.color]
        b1 == [b EXCEPT !.keymap = a.keymap, !.head.color = a.head.color]
    IN [m EXCEPT !.snakes = <<set_tail_color(a1, tail_color(b)), set_tail_color(b1, tail_color(a))>>]


(***************************************************************************)
(* Collision effects.  ms is the sequence of models; the colliding snake   *)
(* is ms[r].snakes[i]; c is the model the entity hit belongs to.           *)
(***************************************************************************)
\* An increment_score whose scores are in the opposite order to the snakes:
\* the point goes to the score at the mirrored position.
increment_score_mirrored(ms, c, r, i) ==
    [ms EXCEPT ![c].scores =
        [k \in DOMAIN @ |-> IF c = r /\ k = Len(@) + 1 - i THEN @[k] + 1 ELSE @[k]]]

\* Model.increment_score: the score paired by zip with the snake that IS the
\* scoring snake; a snake of another model matches none.
increment_score(ms, c, r, i) ==
    [ms EXCEPT ![c].scores = [k \in DOMAIN @ |-> IF c = r /\ k = i THEN @[k] + 1 ELSE @[k]]]

\* An add_apple that appends nothing.
add_apple_forgotten(ms, c, xy) == ms

\* Model.add_apple, Model.remove_apple, Model.add_block on model c.
add_apple(ms, c, xy) == [ms EXCEPT ![c].apples = ViewableContainer_append(@, xy)]
remove_apple(ms, c, idx) == [ms EXCEPT ![c].apples = ViewableContainer_remove(@, idx)]
add_block(ms, c, xy) == [ms EXCEPT ![c].blocks = ViewableContainer_append(@, xy)]

\* A lethal effect that also scores for the snake it kills.
dead_collision_callback_scoring(ms, r, i) ==
    [ms EXCEPT ![r].snakes[i].dead = TRUE, ![r].scores[i] = @ + 1]

\* TailPiece / Block / WallBlock.collision_callback
dead_collision_callback(ms, r, i) == [ms EXCEPT ![r].snakes[i].dead = TRUE]

\* An apple effect that forgets to remove the eaten apple.
Apple_collision_callback_keep(ms, idx, r, i, c, axy, bxy) ==
    LET m1 == increment_score(ms, c, r, i)
        m2 == [m1 EXCEPT ![r].snakes[i] = add_tail_piece(@)]
        m3 == add_apple(m2, c, axy)
        m5 == add_block(m3, c, bxy)
    IN IF m5[c].switching THEN [m5 EXCEPT ![c] = switch_snakes(@)] ELSE m5

\* Apple.collision_callback, the apple being apples[idx] of model c; axy and
\* bxy are the random locations drawn for the new apple and the new block.
Apple_collision_callback(ms, idx, r, i, c, axy, bxy) ==
    LET m1 == increment_score(ms, c, r, i)
        m2 == [m1 EXCEPT ![r].snakes[i] = add_tail_piece(@)]
        m3 == add_apple(m2, c, axy)
        m4 == remove_apple(m3, c, idx)
        m5 == add_block(m4, c, bxy)
    IN IF m5[c].switching THEN [m5 EXCEPT ![c] = switch_snakes(@)] ELSE m5

\* snake.move() of the loop body.
moved(ms, r, i) == [ms EXCEPT ![r].snakes[i] = Snake_move(@)]

\* hit_item of the loop body: the collidable of model c at the head's cell,
\* looked up after the move.
hit_item(ms, r, i, c) ==
    get_collision(collidable_objects(moved(ms, r, i)[c]), moved(ms, r, i)[r].snakes[i].head.xy)

\* One pass of the body of Controller._advance_single_snake_loop for the snake
\* ms[r].snakes[i] of the thread, with self.model = ms[c]:
\* snake.move(); hit_item = ...get_collision(snake.head); callback.
loop_body(r, i, c) ==
    LET hit == hit_item(models, r, i, c)
        ms1 == moved(models, r, i)
    IN /\ ticks' = ticks + 1
       /\ IF hit.kind = "apple"
          THEN /\ Len(models[c].blocks) < n_blocks + MaxEaten
               /\ \E axy \in random_locations, bxy \in random_locations :
                    models' = Apple_collision_callback(ms1, hit.idx, r, i, c, axy, bxy)
          ELSE IF hit.kind = "none"
          THEN models' = ms1
          ELSE models' = dead_collision_callback(ms1, r, i)

\* A key loop that looks every snake's heading up in the first snake's keymap.
key_headings_one_keymap(ms, c, ch) ==
    [ms EXCEPT ![c].snakes =
        [j \in DOMAIN @ |-> IF ch \in DOMAIN @[1].keymap
                            THEN Snake_set_dxdy(@[j], @[1].keymap[ch])
                            ELSE @[j]]]

\* The body of the loop of Controller._monitor_keypress for one key, with
\* self.model = ms[c]: every snake whose keymap holds the key takes the
\* heading the keymap gives.
key_headings(ms, c, ch) ==
    [ms EXCEPT ![c].snakes =
        [j \in DOMAIN @ |-> IF ch \in DOMAIN @[j].keymap
                            THEN Snake_set_dxdy(@[j], @[j].keymap[ch])
                            ELSE @[j]]]

(***************************************************************************)
(* Spec: one round of the game, every loop pass atomic.  The state after   *)
(* Controller.start_game built a Model for one of the three modes; then    *)
(* key events and advances of either snake in any order.                   *)
(***************************************************************************)
\* The three Model(...) calls of Controller.start_game.
Modes ==
    { [paired |-> FALSE, switching |-> FALSE, keymaps |-> INDEPENDENT_KEY_MAPS],
      [paired |-> TRUE, switching |-> FALSE, keymaps |-> PAIRED_KEY_MAPS],
      [paired |-> TRUE, switching |-> TRUE, keymaps |-> PAIRED_KEY_MAPS] }

\* The models start_game can construct: a mode and the random draws.
NewModels ==
    { Model(md.paired, md.switching, md.keymaps, apples, blocks) :
        md \in Modes,
        apples \in [1..n_apples -> random_locations],
        blocks \in [1..n_blocks -> random_locations] }

UnitIdle ==
    /\ test_snake = Snake(<<0, 0>>, DOWN, 2, <<>>)
    /\ op = [name |-> "init", arg |-> <<0, 0>>]
    /\ nops = 0
    /\ group = <<>>
    /\ xy_type = "list"

ThreadsIdle ==
    /\ main = "n/a"
    /\ kpc = <<>>
    /\ wpc = <<>>
    /\ held = <<>>

Init ==
    /\ \E m \in NewModels : models = <<m>>
    /\ cur = 1
    /\ interrupted = FALSE
    /\ ticks = 0
    /\ keys = 0
    /\ ThreadsIdle
    /\ UnitIdle

\* A pass of the key press loop: the loop test, getch() returning ch, the
\* stop test and the heading assignments.
MonitorKeypress(ch) ==
    /\ ~interrupted
    /\ keys < MaxKeys
    /\ keys' = keys + 1
    /\ interrupted' = (ch = STOP_KEY)
    /\ models' = key_headings(models, cur, ch)
    /\ UNCHANGED <<cur, ticks, threadVars, unitVars>>

\* A pass of the movement loop of snake i: the loop test and the body.
AdvanceSingleSnake(i) ==
    /\ ~is_game_over(models[cur])
    /\ ~interrupted
    /\ ticks < MaxTicks
    /\ loop_body(cur, i, cur)
    /\ UNCHANGED <<cur, interrupted, keys, threadVars, unitVars>>

Next ==
    \/ \E ch \in Keys : MonitorKeypress(ch)
    \/ \E i \in 1..2 : AdvanceSingleSnake(i)

Spec == Init /\ [][Next]_vars


(***************************************************************************)
(* SpecRound: the Controller with its threads.  The coordinator runs       *)
(* start_game / play_round / _render_loop; play_round starts one key press *)
(* thread and one movement thread per snake, and never joins them.  Every  *)
(* thread reads self.model and self.interrupted of the one Controller.     *)
(***************************************************************************)
InitRound ==
    /\ models = <<>>
    /\ cur = 0
    /\ interrupted = FALSE
    /\ ticks = 0
    /\ keys = 0
    /\ main = "home"
    /\ kpc = <<>>
    /\ wpc = <<>>
    /\ held = <<>>
    /\ UnitIdle

\* The Model(...) start_game builds for the key ch, if ch chooses a mode.
chosen_models(ch) ==
    { Model(md.paired, md.switching, md.keymaps, apples, blocks) :
        md \in { x \in Modes :
                   \/ ch = CHOOSE_INDEPENDENT_KEY /\ ~x.paired
                   \/ ch = CHOOSE_PAIRED_KEY /\ ch # CHOOSE_INDEPENDENT_KEY
                        /\ x.paired /\ ~x.switching
                   \/ ch = CHOOSE_SWITCH_KEY /\ ch # CHOOSE_INDEPENDENT_KEY
                        /\ ch # CHOOSE_PAIRED_KEY /\ x.paired /\ x.switching },
        apples \in [1..n_apples -> random_locations],
        blocks \in [1..n_blocks -> random_locations] }

\* What is left of the earlier models once self.model is rebound: the old
\* Model object, its containers, apples, blocks and scores are unreachable
\* (freed); its snakes live on as the arguments of their movement threads.
released(ms) ==
    [k \in DOMAIN ms |-> [ms[k] EXCEPT !.apples = <<>>, !.blocks = <<>>,
                                       !.scores = <<>>]]

\* start_game: show_home_screen, ch = getch(), then the mode chosen by ch:
\* self.model = Model(...); the stop key ends the loop, any other key
\* shows the home screen again.
StartGame(ch) ==
    /\ main = "home"
    /\ IF ch = STOP_KEY
       THEN main' = "exit" /\ UNCHANGED <<models, cur>>
       ELSE IF chosen_models(ch) # {}
       THEN /\ Len(models) < MaxRounds
            /\ \E m \in chosen_models(ch) : models' = Append(released(models), m)
            /\ cur' = Len(models) + 1
            /\ main' = "play"
       ELSE UNCHANGED <<models, cur, main>>
    /\ UNCHANGED <<interrupted, ticks, keys, kpc, wpc, held, unitVars>>

\* play_round up to the call of _render_loop: the flag is lowered and the
\* threads of the round are started.
PlayRound ==
    /\ main = "play"
    /\ interrupted' = FALSE
    /\ kpc' = Append(kpc, "test")
    /\ wpc' = Append(wpc, [j \in DOMAIN models[cur].snakes |-> "test"])
    /\ main' = "render"
    /\ UNCHANGED <<models, cur, ticks, keys, held, unitVars>>

\* The loop test of a render loop that leaves only when a snake is dead.
render_continues_ignoring_flag == ~is_game_over(models[cur])

\* The loop test of _render_loop.
render_continues == ~is_game_over(models[cur]) /\ ~interrupted

\* _render_loop: one pass (the world is painted, nothing changes), or the
\* exit: the flag is raised and the death banner shown.
RenderLoop ==
    /\ main = "render"
    /\ IF render_continues
       THEN UNCHANGED <<interrupted, main>>
       ELSE interrupted' = TRUE /\ main' = "ack"
    /\ UNCHANGED <<models, cur, ticks, keys, kpc, wpc, held, unitVars>>

\* play_round's last line: stdscr.getch() returns (any key), and start_game
\* goes round its loop.
Acknowledge ==
    /\ main = "ack"
    /\ main' = "home"
    /\ UNCHANGED <<worldVars, kpc, wpc, held, unitVars>>

\* _monitor_keypress of round r: the loop test.
MonitorTest(r) ==
    /\ kpc[r] = "test"
    /\ kpc' = [kpc EXCEPT ![r] = IF ~interrupted THEN "getch" ELSE "done"]
    /\ UNCHANGED <<worldVars, main, wpc, held, unitVars>>

\* _monitor_keypress of round r: getch() returns ch and the loop body runs
\* on the current self.model.
MonitorGetch(r, ch) ==
    /\ kpc[r] = "getch"
    /\ keys < MaxThreadKeys
    /\ keys' = keys + 1
    /\ kpc' = [kpc EXCEPT ![r] = "test"]
    /\ interrupted' = IF ch = STOP_KEY THEN TRUE ELSE interrupted
    /\ models' = key_headings(models, cur, ch)
    /\ UNCHANGED <<cur, ticks, main, wpc, held, unitVars>>

\* _advance_single_snake_loop of thread (r, i): the loop test.
AdvanceTest(r, i) ==
    /\ wpc[r][i] = "test"
    /\ wpc' = [wpc EXCEPT ![r][i] =
                 IF ~is_game_over(models[cur]) /\ ~interrupted THEN "body" ELSE "done"]
    /\ UNCHANGED <<worldVars, main, kpc, held, unitVars>>

\* _advance_single_snake_loop of thread (r, i): the loop body, on the
\* thread's own snake and the current self.model, then the sleep.
AdvanceBody(r, i) ==
    /\ wpc[r][i] = "body"
    /\ ticks < MaxThreadTicks
    /\ loop_body(r, i, cur)
    /\ wpc' = [wpc EXCEPT ![r][i] = "test"]
    /\ UNCHANGED <<cur, interrupted, keys, main, kpc, held, unitVars>>

\* start_game's first pass: no round has been played yet.
StartFirstGame(ch) == cur = 0 /\ StartGame(ch)

\* start_game's later passes, once play_round has returned.
StartNextGame(ch) == cur > 0 /\ StartGame(ch)

NextRound ==
    \/ \E ch \in Keys : StartFirstGame(ch)
    \/ PlayRound
    \/ RenderLoop
    \/ Acknowledge
    \/ \E r \in DOMAIN kpc : MonitorTest(r)
    \/ \E r \in DOMAIN kpc, ch \in Keys : MonitorGetch(r, ch)
    \/ \E r \in DOMAIN wpc, i \in 1..2 : AdvanceTest(r, i)
    \/ \E r \in DOMAIN wpc, i \in 1..2 : AdvanceBody(r, i)

\* The render loop is a thread of its own that the scheduler keeps running.
SpecRound == InitRound /\ [][NextRound]_vars /\ WF_vars(RenderLoop)


(***************************************************************************)
(* SpecRestart: the Controller over several rounds.  As SpecRound, with    *)
(* start_game going round its loop after a round, and with each pass of a  *)
(* movement loop (test and body) taken as one step.                        *)
(***************************************************************************)
\* _advance_single_snake_loop of thread (r, i): one pass of the loop, or its
\* exit when the loop test fails.
AdvancePass(r, i) ==
    /\ wpc[r][i] = "test"
    /\ IF ~is_game_over(models[cur]) /\ ~interrupted
       THEN /\ ticks < MaxRestartTicks
            /\ loop_body(r, i, cur)
            /\ UNCHANGED wpc
       ELSE /\ wpc' = [wpc EXCEPT ![r][i] = "done"]
            /\ UNCHANGED <<models, ticks>>
    /\ UNCHANGED <<cur, interrupted, keys, main, kpc, held, unitVars>>

NextRestart ==
    \/ \E ch \in Keys : StartFirstGame(ch)
    \/ \E ch \in Keys : StartNextGame(ch)
    \/ PlayRound
    \/ RenderLoop
    \/ Acknowledge
    \/ \E r \in DOMAIN kpc : MonitorTest(r)
    \/ \E r \in DOMAIN kpc, ch \in Keys : MonitorGetch(r, ch)
    \/ \E r \in DOMAIN wpc, i \in 1..2 : AdvancePass(r, i)

SpecRestart == InitRound /\ [][NextRestart]_vars /\ WF_vars(RenderLoop)


(***************************************************************************)
(* SpecSnake: a Snake used directly through its methods, as the unit tests *)
(* do: any constructed snake, built from a list or from a tuple, then      *)
(* move(), the dxdy setter, add_tail_piece() and is_colliding_with_self()  *)
(* in any order.                                                           *)
(***************************************************************************)
WorldIdle ==
    /\ models = <<>>
    /\ cur = 0
    /\ interrupted = FALSE
    /\ ticks = 0
    /\ keys = 0

InitSnake ==
    /\ \E dxdy \in Range(DIRECTIONS), len \in 2..MaxLen :
          test_snake = Snake(<<10, 10>>, dxdy, len, <<>>)
    /\ op = [name |-> "init", arg |-> <<0, 0>>]
    /\ nops = 0
    /\ group = <<>>
    /\ xy_type \in {"list", "tuple"}
    /\ WorldIdle
    /\ ThreadsIdle

\* test_snake.move()
UnitMove ==
    /\ nops < MaxOps
    /\ test_snake' = Snake_move(test_snake)
    /\ op' = [name |-> "move", arg |-> <<0, 0>>]
    /\ nops' = nops + 1
    /\ UNCHANGED <<worldVars, threadVars, group, xy_type>>

\* test_snake.dxdy = dxdy
UnitSetDxdy(dxdy) ==
    /\ nops < MaxOps
    /\ test_snake' = Snake_set_dxdy(test_snake, dxdy)
    /\ op' = [name |-> "dxdy", arg |-> dxdy]
    /\ nops' = nops + 1
    /\ UNCHANGED <<worldVars, threadVars, group, xy_type>>

\* test_snake.add_tail_piece()
UnitAddTailPiece ==
    /\ nops < MaxOps
    /\ test_snake' = add_tail_piece(test_snake)
    /\ op' = [name |-> "add_tail_piece", arg |-> <<0, 0>>]
    /\ nops' = nops + 1
    /\ UNCHANGED <<worldVars, threadVars, group, xy_type>>

\* Snake.is_colliding_with_self: "self.xy in self.tail.viewables_by_location".
\* self.xy is the object given to Snake.__init__, which no method assigns
\* again; the membership test hashes it, and a list has no hash.
is_colliding_with_self(snake, type) ==
    IF type = "list"
    THEN "TypeError"
    ELSE IF snake.xy \in DOMAIN viewables_by_location(snake.tail) THEN "True" ELSE "False"

\* test_snake.is_colliding_with_self()
UnitIsCollidingWithSelf ==
    /\ nops < MaxOps
    /\ op' = [name |-> "is_colliding_with_self",
              arg |-> is_colliding_with_self(test_snake, xy_type)]
    /\ nops' = nops + 1
    /\ UNCHANGED <<worldVars, threadVars, test_snake, group, xy_type>>

NextSnake ==
    \/ UnitIsCollidingWithSelf
    \/ UnitMove
    \/ \E dxdy \in Range(DIRECTIONS) : UnitSetDxdy(dxdy)
    \/ UnitAddTailPiece

SpecSnake == InitSnake /\ [][NextSnake]_vars

(***************************************************************************)
(* SpecSteps: one round with the statements of the threads as the steps.   *)
(* The program takes no lock, so the threads interleave between any two    *)
(* statements: a movement thread runs its loop test, Snake.move piece by   *)
(* piece, the get_collision lookup, and the statements of the collision    *)
(* callback one by one; the key press thread runs its loop test, getch(),  *)
(* and the heading assignment of each snake in turn.                       *)
(*   wpc[1][i]  the statement movement thread i is at                      *)
(*   held[i]    its local variables: hit (hit_item) and k (the tail piece  *)
(*              the loop of Snake.move is at)                              *)
(*   kpc[1]     the statement the key press thread is at                   *)
(*   held[3]    its local variable char_pressed                            *)
(***************************************************************************)
\* Snake.move, one iteration of its loop: tail piece k copies its leader.
move_tail_piece(ms, r, i, k) ==
    [ms EXCEPT ![r].snakes[i].tail[k] =
        TailPiece_move(@, leader(ms[r].snakes[i].head, ms[r].snakes[i].tail, k))]

\* Snake.move, its last statement: self.head.move().
move_head(ms, r, i) == [ms EXCEPT ![r].snakes[i].head = SnakePiece_move(@)]

\* Model.switch_snakes, statement by statement.
switch_keymaps(m) ==
    [m EXCEPT !.snakes[1].keymap = m.snakes[2].keymap,
              !.snakes[2].keymap = m.snakes[1].keymap]
switch_head_colors(m) ==
    [m EXCEPT !.snakes[1].head.color = m.snakes[2].head.color,
              !.snakes[2].head.color = m.snakes[1].head.color]
switch_tail_colors(m) ==
    [m EXCEPT !.snakes = <<set_tail_color(m.snakes[1], tail_color(m.snakes[2])),
                           set_tail_color(m.snakes[2], tail_color(m.snakes[1]))>>]

\* The hit_item references the threads hold after the apple at index idx
\* has been deleted from the list: the deleted object is in the list no
\* more (index 0), the later ones have moved down.
after_removal(h, idx) ==
    [t \in DOMAIN h |->
        IF t \in 1..2 /\ h[t].hit.kind = "apple"
        THEN IF h[t].hit.idx = idx THEN [h[t] EXCEPT !.hit.idx = 0]
             ELSE IF h[t].hit.idx > idx THEN [h[t] EXCEPT !.hit.idx = @ - 1]
             ELSE h[t]
        ELSE h[t]]

NoLocals == [hit |-> NoHit, k |-> 0]

\* while not self.model.is_game_over() and not self.interrupted:
StepTest(i) ==
    /\ wpc[1][i] = "test"
    /\ IF ~is_game_over(models[cur]) /\ ~interrupted
       THEN /\ ticks < MaxStepTicks
            /\ ticks' = ticks + 1
            /\ wpc' = [wpc EXCEPT ![1][i] = "move"]
            /\ held' = [held EXCEPT ![i].k = Len(models[cur].snakes[i].tail)]
       ELSE /\ wpc' = [wpc EXCEPT ![1][i] = "done"]
            /\ UNCHANGED <<ticks, held>>
    /\ UNCHANGED <<models, cur, interrupted, keys, main, kpc, unitVars>>

\* snake.move(): one piece per step, the tail from its end, then the head.
StepMove(i) ==
    /\ wpc[1][i] = "move"
    /\ IF held[i].k >= 1
       THEN /\ models' = move_tail_piece(models, cur, i, held[i].k)
            /\ held' = [held EXCEPT ![i].k = @ - 1]
            /\ UNCHANGED wpc
       ELSE /\ models' = move_head(models, cur, i)
            /\ wpc' = [wpc EXCEPT ![1][i] = "lookup"]
            /\ UNCHANGED held
    /\ UNCHANGED <<cur, interrupted, ticks, keys, main, kpc, unitVars>>

\* hit_item = self.model.collidable_objects.get_collision(snake.head)
StepLookup(i) ==
    /\ wpc[1][i] = "lookup"
    /\ held' = [held EXCEPT ![i].hit =
                  get_collision(collidable_objects(models[cur]),
                                models[cur].snakes[i].head.xy)]
    /\ wpc' = [wpc EXCEPT ![1][i] = "callback"]
    /\ UNCHANGED <<worldVars, main, kpc, unitVars>>

\* if hit_item: hit_item.collision_callback(snake) -- for an apple up to
\* the callback's first statement, increment_score; then the sleep.
StepCallback(i) ==
    /\ wpc[1][i] = "callback"
    /\ IF held[i].hit.kind = "none"
       THEN wpc' = [wpc EXCEPT ![1][i] = "test"] /\ UNCHANGED models
       ELSE IF held[i].hit.kind = "apple"
       THEN /\ models' = increment_score(models, cur, cur, i)
            /\ wpc' = [wpc EXCEPT ![1][i] = "add_tail_piece"]
       ELSE /\ models' = dead_collision_callback(models, cur, i)
            /\ wpc' = [wpc EXCEPT ![1][i] = "test"]
    /\ UNCHANGED <<cur, interrupted, ticks, keys, main, kpc, held, unitVars>>

\* Apple.collision_callback: snake.add_tail_piece()
StepAddTailPiece(i) ==
    /\ wpc[1][i] = "add_tail_piece"
    /\ models' = [models EXCEPT ![cur].snakes[i] = add_tail_piece(@)]
    /\ wpc' = [wpc EXCEPT ![1][i] = "add_apple"]
    /\ UNCHANGED <<cur, interrupted, ticks, keys, main, kpc, held, unitVars>>

\* Apple.collision_callback: self.model.add_apple()
StepAddApple(i) ==
    /\ wpc[1][i] = "add_apple"
    /\ \E axy \in random_locations : models' = add_apple(models, cur, axy)
    /\ wpc' = [wpc EXCEPT ![1][i] = "remove_apple"]
    /\ UNCHANGED <<cur, interrupted, ticks, keys, main, kpc, held, unitVars>>

\* Apple.collision_callback: self.model.remove_apple(self); list.index raises
\* ValueError when the apple is in the list no more, which ends the thread.
StepRemoveApple(i) ==
    /\ wpc[1][i] = "remove_apple"
    /\ IF held[i].hit.idx = 0
       THEN /\ wpc' = [wpc EXCEPT ![1][i] = "ValueError"]
            /\ UNCHANGED <<models, held>>
       ELSE /\ models' = remove_apple(models, cur, held[i].hit.idx)
            /\ held' = after_removal(held, held[i].hit.idx)
            /\ wpc' = [wpc EXCEPT ![1][i] = "add_block"]
    /\ UNCHANGED <<cur, interrupted, ticks, keys, main, kpc, unitVars>>

\* Apple.collision_callback: self.model.add_block(), then the test of
\* self.model.switching.
StepAddBlock(i) ==
    /\ wpc[1][i] = "add_block"
    /\ \E bxy \in random_locations : models' = add_block(models, cur, bxy)
    /\ wpc' = [wpc EXCEPT ![1][i] =
                 IF models[cur].switching THEN "switch_keymaps" ELSE "test"]
    /\ UNCHANGED <<cur, interrupted, ticks, keys, main, kpc, held, unitVars>>

\* Model.switch_snakes: its three statements.
StepSwitch(i) ==
    /\ \/ /\ wpc[1][i] = "switch_keymaps"
          /\ models' = [models EXCEPT ![cur] = switch_keymaps(@)]
          /\ wpc' = [wpc EXCEPT ![1][i] = "switch_head_colors"]
       \/ /\ wpc[1][i] = "switch_head_colors"
          /\ models' = [models EXCEPT ![cur] = switch_head_colors(@)]
          /\ wpc' = [wpc EXCEPT ![1][i] = "switch_tail_colors"]
       \/ /\ wpc[1][i] = "switch_tail_colors"
          /\ models' = [models EXCEPT ![cur] = switch_tail_colors(@)]
          /\ wpc' = [wpc EXCEPT ![1][i] = "test"]
    /\ UNCHANGED <<cur, interrupted, ticks, keys, main, kpc, held, unitVars>>

\* _monitor_keypress: while not self.interrupted:
KeyTest ==
    /\ kpc[1] = "test"
    /\ kpc' = [kpc EXCEPT ![1] = IF ~interrupted THEN "getch" ELSE "done"]
    /\ UNCHANGED <<worldVars, main, wpc, held, unitVars>>

\* _monitor_keypress: char_pressed = stdscr.getch() and the stop test.
KeyGetch(ch) ==
    /\ kpc[1] = "getch"
    /\ keys < MaxStepKeys
    /\ keys' = keys + 1
    /\ held' = [held EXCEPT ![3] = ch]
    /\ interrupted' = IF ch = STOP_KEY THEN TRUE ELSE interrupted
    /\ kpc' = [kpc EXCEPT ![1] = "snake1"]
    /\ UNCHANGED <<models, cur, ticks, main, wpc, unitVars>>

\* _monitor_keypress: one iteration of "for snake in self.model.snakes".
KeySnake(j) ==
    /\ kpc[1] = (IF j = 1 THEN "snake1" ELSE "snake2")
    /\ models' = [models EXCEPT ![cur].snakes[j] =
                    IF held[3] \in DOMAIN @.keymap
                    THEN Snake_set_dxdy(@, @.keymap[held[3]])
                    ELSE @]
    /\ kpc' = [kpc EXCEPT ![1] = IF j = 1 THEN "snake2" ELSE "test"]
    /\ UNCHANGED <<cur, interrupted, ticks, keys, main, wpc, held, unitVars>>

\* A script of loop passes taken one at a time (as in Spec): a key event
\* [key |-> ch, snake |-> 0] or a pass of the movement loop of a snake
\* [key |-> "", snake |-> i].
RECURSIVE passes_freely(_, _)
RECURSIVE played(_, _)

\* The world after the script, when every pass of it is a free one.
played(m, script) ==
    IF script = <<>> THEN m
    ELSE played(IF Head(script).key # ""
                THEN key_headings(<<m>>, 1, Head(script).key)[1]
                ELSE moved(<<m>>, 1, Head(script).snake)[1],
                Tail(script))

\* Every movement pass of the script finds no collidable under the head.
passes_freely(m, script) ==
    IF script = <<>> THEN TRUE
    ELSE /\ Head(script).key = "" =>
               hit_item(<<m>>, 1, Head(script).snake, 1).kind = "none"
         /\ passes_freely(played(m, <<Head(script)>>), Tail(script))

\* Independent mode: the snake steered with w/a/s/d goes right, up and left,
\* round the head of the other one, and turns down; the other one turns
\* left.  Both heads then face the start cell of the first.
Approach ==
    << [key |-> "d", snake |-> 0], [key |-> "", snake |-> 2],
       [key |-> "w", snake |-> 0], [key |-> "", snake |-> 2],
       [key |-> "a", snake |-> 0], [key |-> "", snake |-> 2],
       [key |-> "s", snake |-> 0], [key |-> "KEY_LEFT", snake |-> 0] >>

\* Switching mode: the right arrow key turns one head right and the other
\* left.
Steer == << [key |-> "KEY_RIGHT", snake |-> 0] >>

\* The worlds a round is in after the script Approach, and the switching
\* worlds after the script Steer.
StagedModels ==
    { played(m, Approach) :
        m \in { x \in NewModels : ~x.switching /\ passes_freely(x, Approach) } }
    \cup { played(m, Steer) : m \in { x \in NewModels : x.switching } }

InitSteps ==
    /\ \E m \in NewModels \cup StagedModels : models = <<m>>
    /\ cur = 1
    /\ interrupted = FALSE
    /\ ticks = 0
    /\ keys = 0
    /\ main = "n/a"
    /\ kpc = <<"test">>
    /\ wpc = << <<"test", "test">> >>
    /\ held = <<NoLocals, NoLocals, "">>
    /\ UnitIdle

NextSteps ==
    \/ \E i \in 1..2 : StepTest(i)
    \/ \E i \in 1..2 : StepMove(i)
    \/ \E i \in 1..2 : StepLookup(i)
    \/ \E i \in 1..2 : StepCallback(i)
    \/ \E i \in 1..2 : StepAddTailPiece(i)
    \/ \E i \in 1..2 : StepAddApple(i)
    \/ \E i \in 1..2 : StepRemoveApple(i)
    \/ \E i \in 1..2 : StepAddBlock(i)
    \/ \E i \in 1..2 : StepSwitch(i)
    \/ KeyTest
    \/ \E ch \in Keys : KeyGetch(ch)
    \/ \E j \in 1..2 : KeySnake(j)

SpecSteps == InitSteps /\ [][NextSteps]_vars

(***************************************************************************)
(* SpecMidRound: as Spec, every loop pass atomic, from the staged worlds:  *)
(* a round that key events and advances have already taken away from its  *)
(* starting configuration.                                                 *)
(***************************************************************************)
InitMidRound ==
    /\ \E m \in StagedModels : models = <<m>>
    /\ cur = 1
    /\ interrupted = FALSE
    /\ ticks = 0
    /\ keys = 0
    /\ ThreadsIdle
    /\ UnitIdle

SpecMidRound == InitMidRound /\ [][Next]_vars

(***************************************************************************)
(* SpecCrash: the movement threads statement by statement, as in SpecSteps, *)
(* together with the render loop of the round, from the staged worlds, and  *)
(* with no key arriving: the key press thread stays blocked in getch().     *)
(***************************************************************************)
MaxCrashTicks == 3

\* while not self.model.is_game_over() and not self.interrupted:
CrashTest(i) ==
    /\ wpc[1][i] = "test"
    /\ IF ~is_game_over(models[cur]) /\ ~interrupted
       THEN /\ ticks < MaxCrashTicks
            /\ ticks' = ticks + 1
            /\ wpc' = [wpc EXCEPT ![1][i] = "move"]
            /\ held' = [held EXCEPT ![i].k = Len(models[cur].snakes[i].tail)]
       ELSE /\ wpc' = [wpc EXCEPT ![1][i] = "done"]
            /\ UNCHANGED <<ticks, held>>
    /\ UNCHANGED <<models, cur, interrupted, keys, main, kpc, unitVars>>

InitCrash ==
    /\ \E m \in StagedModels : models = <<m>>
    /\ cur = 1
    /\ interrupted = FALSE
    /\ ticks = 0
    /\ keys = 0
    /\ main = "render"
    /\ kpc = <<"getch">>
    /\ wpc = << <<"test", "test">> >>
    /\ held = <<NoLocals, NoLocals, "">>
    /\ UnitIdle

NextCrash ==
    \/ RenderLoop
    \/ \E i \in 1..2 : CrashTest(i)
    \/ \E i \in 1..2 : StepMove(i)
    \/ \E i \in 1..2 : StepLookup(i)
    \/ \E i \in 1..2 : StepCallback(i)
    \/ \E i \in 1..2 : StepAddTailPiece(i)
    \/ \E i \in 1..2 : StepAddApple(i)
    \/ \E i \in 1..2 : StepRemoveApple(i)
    \/ \E i \in 1..2 : StepAddBlock(i)
    \/ \E i \in 1..2 : StepSwitch(i)

SpecCrash == InitCrash /\ [][NextCrash]_vars /\ WF_vars(RenderLoop)

(***************************************************************************)
(* SpecStale: the Controller over the end of a first round and the start   *)
(* of the next one, as in SpecRestart, from the moment a snake of the      *)
(* first round has walked into the wall on its first pass.                 *)
(***************************************************************************)
\* The worlds of a first round in independent mode after the one pass of a
\* movement loop that takes a snake from its starting cell into the bottom
\* wall, on the wall cell next to the corner (height, width).
FallenModels ==
    UNION { { dead_collision_callback(moved(<<m>>, 1, i), 1, i)[1] :
                i \in { j \in 1..2 :
                          /\ hit_item(<<m>>, 1, j, 1).kind = "wall"
                          /\ moved(<<m>>, 1, j)[1].snakes[j].head.xy = <<height, width - 1>> } } :
            m \in chosen_models(CHOOSE_INDEPENDENT_KEY) }

InitStale ==
    /\ \E m \in FallenModels : models = <<m>>
    /\ cur = 1
    /\ interrupted = FALSE
    /\ ticks = 0
    /\ keys = 0
    /\ main = "render"
    /\ kpc = <<"getch">>
    /\ wpc = << <<"test", "test">> >>
    /\ held = <<>>
    /\ UnitIdle

NextStale ==
    \/ \E ch \in Keys : StartNextGame(ch)
    \/ PlayRound
    \/ RenderLoop
    \/ Acknowledge
    \/ \E r \in DOMAIN kpc : MonitorTest(r)
    \/ \E r \in DOMAIN kpc, ch \in Keys : MonitorGetch(r, ch)
    \/ \E r \in DOMAIN wpc, i \in 1..2 : AdvancePass(r, i)

SpecStale == InitStale /\ [][NextStale]_vars /\ WF_vars(RenderLoop)

(***************************************************************************)
(* SpecContainer: a ViewableContainer used directly through its methods,   *)
(* as test_viewable_container does: an empty container, then append, "+=", *)
(* remove and get_collision in any order, with viewables and with          *)
(* containers of viewables as arguments.  The objects are held by the      *)
(* caller; their identity is the field idx.                                *)
(***************************************************************************)
MaxGroupOps == 4

\* Viewable(xy, icon)
Viewable(id, xy) == [kind |-> "viewable", owner |-> 0, idx |-> id, xy |-> xy]

\* ViewableContainer(*viewables) used as a member of another container.
ViewableContainer(id, viewables) ==
    [kind |-> "container", owner |-> 0, idx |-> id, xy |-> <<0, 0>>, viewables |-> viewables]

\* The objects the caller holds: three viewables, two of them on one cell,
\* a container of two of them, and a container holding that container.
Objects ==
    LET X == Viewable(1, <<1, 2>>)
        C == Viewable(2, <<1, 2>>)
        Y == Viewable(3, <<3, 4>>)
        inner == ViewableContainer(4, <<X, Y>>)
        outer == ViewableContainer(5, <<inner, C>>)
    IN {X, C, Y, inner, outer}

\* The cells get_collision is asked about.
Cells == {<<1, 2>>, <<3, 4>>, <<5, 6>>}

RECURSIVE expand_viewables(_)
\* ViewableContainer._expand_viewables: the members in order, every member
\* that is a container replaced by its own expansion.
expand_viewables(viewables) ==
    IF viewables = <<>>
    THEN <<>>
    ELSE (IF Head(viewables).kind = "container"
          THEN expand_viewables(Head(viewables).viewables)
          ELSE <<Head(viewables)>>) \o expand_viewables(Tail(viewables))

\* list.index(item): the first position holding the object, 0 for ValueError.
index_of(viewables, item) ==
    IF \E k \in DOMAIN viewables : viewables[k].idx = item.idx
    THEN Min({k \in DOMAIN viewables : viewables[k].idx = item.idx})
    ELSE 0

InitContainer ==
    /\ group = <<>>
    /\ op = [name |-> "init", arg |-> NoHit, result |-> NoHit]
    /\ nops = 0
    /\ test_snake = Snake(<<0, 0>>, DOWN, 2, <<>>)
    /\ xy_type = "list"
    /\ WorldIdle
    /\ ThreadsIdle

\* group.append(viewable)
ContainerAppend(viewable) ==
    /\ nops < MaxGroupOps
    /\ group' = ViewableContainer_append(group, viewable)
    /\ op' = [name |-> "append", arg |-> viewable, result |-> NoHit]
    /\ nops' = nops + 1
    /\ UNCHANGED <<worldVars, threadVars, test_snake, xy_type>>

\* group += viewable
ContainerAdd(viewable) ==
    /\ nops < MaxGroupOps
    /\ group' = ViewableContainer_add(group, viewable)
    /\ op' = [name |-> "add", arg |-> viewable, result |-> NoHit]
    /\ nops' = nops + 1
    /\ UNCHANGED <<worldVars, threadVars, test_snake, xy_type>>

\* group.remove(item): list.index raises ValueError before anything is
\* deleted; otherwise the member at that index is deleted.
ContainerRemove(item) ==
    /\ nops < MaxGroupOps
    /\ LET i == index_of(group, item)
       IN IF i = 0
          THEN /\ group' = group
               /\ op' = [name |-> "remove", arg |-> item,
                         result |-> [NoHit EXCEPT !.kind = "ValueError"]]
          ELSE /\ group' = ViewableContainer_remove(group, i)
               /\ op' = [name |-> "remove", arg |-> item, result |-> NoHit]
    /\ nops' = nops + 1
    /\ UNCHANGED <<worldVars, threadVars, test_snake, xy_type>>

\* group.get_collision(viewable) for a viewable on cell xy
ContainerGetCollision(xy) ==
    /\ nops < MaxGroupOps
    /\ op' = [name |-> "get_collision", arg |-> Viewable(0, xy),
              result |-> get_collision(expand_viewables(group), xy)]
    /\ nops' = nops + 1
    /\ UNCHANGED <<worldVars, threadVars, test_snake, group, xy_type>>

NextContainer ==
    \/ \E viewable \in Objects : ContainerAppend(viewable)
    \/ \E viewable \in Objects : ContainerAdd(viewable)
    \/ \E item \in Objects : ContainerRemove(item)
    \/ \E xy \in Cells : ContainerGetCollision(xy)

SpecContainer == InitContainer /\ [][NextContainer]_vars

(***************************************************************************)
(* Properties.                                                             *)
(***************************************************************************)
Neg(d) == <<-d[1], -d[2]>>
Plus(a, b) == <<a[1] + b[1], a[2] + b[2]>>
Minus(a, b) == <<a[1] - b[1], a[2] - b[2]>>

C5_OppositeIsNoOp ==
    [][(op'.name = "dxdy" /\ op'.arg = Neg(test_snake.head.dxdy)) =>
         test_snake' = test_snake]_vars

\* C6: the dxdy setter given a unit delta that is not the exact opposite of
\* the head's heading leaves the head with that heading.
C6_TurnSucceeds ==
    [][(op'.name = "dxdy" /\ op'.arg # Neg(test_snake.head.dxdy)) =>
         test_snake'.head.dxdy = op'.arg]_vars

\* A perpendicular turn was accepted: the head now heads across the first
\* tail piece, which still has the heading the snake was built with.
C6_Witness ==
    /\ nops = 1
    /\ op.name = "dxdy"
    /\ test_snake.head.dxdy = op.arg
    /\ op.arg # test_snake.tail[1].dxdy
    /\ op.arg # Neg(test_snake.tail[1].dxdy)

\* C7: add_tail_piece() adds exactly one segment, at the end, one cell behind
\* the former last segment against that segment's heading and with its
\* heading; no other segment moves or turns.
C7_GrowByOne ==
    [][op'.name = "add_tail_piece" =>
         LET n == Len(test_snake.tail)
         IN /\ Len(test_snake'.tail) = n + 1
            /\ test_snake'.tail[n + 1].xy =
                  Minus(test_snake.tail[n].xy, test_snake.tail[n].dxdy)
            /\ test_snake'.tail[n + 1].dxdy = test_snake.tail[n].dxdy
            /\ \A k \in 1..n :
                  /\ test_snake'.tail[k].xy = test_snake.tail[k].xy
                  /\ test_snake'.tail[k].dxdy = test_snake.tail[k].dxdy
            /\ test_snake'.head.xy = test_snake.head.xy
            /\ test_snake'.head.dxdy = test_snake.head.dxdy]_vars

\* A bent snake that has just grown.
C7_Witness ==
    /\ op.name = "add_tail_piece"
    /\ Len(test_snake.tail) >= 3
    /\ test_snake.tail[1].dxdy # test_snake.tail[Len(test_snake.tail)].dxdy


\* The step is an advance of snake i of the current model: its head has moved.
Advanced(i) ==
    /\ ticks' = ticks + 1
    /\ cur' = cur
    /\ models'[cur].snakes[i].head.xy # models[cur].snakes[i].head.xy

\* The members of a container without the one at index idx, in order.
Without(container, idx) ==
    [k \in 1..(Len(container) - 1) |-> IF k < idx THEN container[k] ELSE container[k + 1]]

\* C2: a tick that puts the head on a cell whose collidable entry is an apple
\* adds 1 to that snake's score and to no other, adds one tail segment,
\* replaces the eaten apple by a new one, and adds one block.
C2_AppleTick ==
    [][\A i \in 1..2 :
         (Advanced(i) /\ hit_item(models, cur, i, cur).kind = "apple") =>
            LET m == models[cur]
                n == models'[cur]
            IN /\ n.scores[i] = m.scores[i] + 1
               /\ n.scores[3 - i] = m.scores[3 - i]
               /\ Len(n.snakes[i].tail) = Len(m.snakes[i].tail) + 1
               /\ Len(n.snakes[3 - i].tail) = Len(m.snakes[3 - i].tail)
               /\ Len(n.apples) = Len(m.apples)
               /\ \E idx \in DOMAIN m.apples :
                     /\ m.apples[idx] = n.snakes[i].head.xy
                     /\ SubSeq(n.apples, 1, Len(m.apples) - 1) = Without(m.apples, idx)
               /\ Len(n.blocks) = Len(m.blocks) + 1]_vars

\* A snake has eaten an apple: it has a score and has grown.
C2_Witness ==
    \E i \in 1..2 :
       /\ models[cur].scores[i] = 1
       /\ Len(models[cur].snakes[i].tail) = length
       /\ Len(models[cur].blocks) = n_blocks + 1

\* C3 (as claimed): whenever an advance leaves the head on the cell of any
\* tail segment of any snake, the snake is dead after the tick.
C3_TailHitKills ==
    [][\A i \in 1..2 :
         (/\ Advanced(i)
          /\ \E j \in 1..2 : \E k \in DOMAIN models[cur].snakes[j].tail :
                models'[cur].snakes[j].tail[k].xy = models'[cur].snakes[i].head.xy)
         => models'[cur].snakes[i].dead]_vars

\* C4 (as claimed): whenever an advance leaves the head on the cell of a
\* block, the snake is dead after the tick and its score is unchanged.
C4_BlockHitKills ==
    [][\A i \in 1..2 :
         (/\ Advanced(i)
          /\ \E k \in DOMAIN models[cur].blocks :
                models[cur].blocks[k] = models'[cur].snakes[i].head.xy)
         => /\ models'[cur].snakes[i].dead
            /\ models'[cur].scores[i] = models[cur].scores[i]]_vars


\* The round of the current model is being played (Running) or is over.
Running == main = "render"
Over == cur >= 1 /\ main \in {"ack", "home", "exit"}

\* C8: a round starts with the flag lowered; it goes from Running to Over
\* only with a dead snake of that round or the flag raised, and the flag is
\* raised during Running only by a key press thread that received the stop
\* key; once Over, the round is never Running again; and a round in which a
\* snake is dead or the stop key was received is eventually Over.
C8_RoundLifecycle ==
    /\ [][/\ (main = "play" /\ main' = "render") => ~interrupted'
          /\ (Running /\ ~Running') =>
                (Over' /\ (is_game_over(models[cur]) \/ interrupted))
          /\ (Running /\ Running' /\ ~interrupted /\ interrupted') =>
                \E r \in DOMAIN kpc : MonitorGetch(r, STOP_KEY)
          /\ (Over /\ cur' = cur) => Over']_vars
    /\ ((Running /\ (is_game_over(models[cur]) \/ interrupted)) ~> Over)

\* A round that is over because the stop key was received: no snake is dead.
C8_Witness ==
    /\ main = "ack"
    /\ ~is_game_over(models[cur])
    /\ interrupted
    /\ keys = 1

\* C9 (as claimed): no movement thread advances its snake once a later round
\* has started; every advance is by a thread of the current round.
C9_NoStaleTick ==
    [][\A r \in DOMAIN models : \A i \in 1..2 :
          (/\ Len(models') = Len(models)
           /\ models'[r].snakes[i].head.xy # models[r].snakes[i].head.xy)
          => r = cur]_vars

\* A model in the initial configuration of its mode.
InitialConfiguration(m) ==
    /\ m.scores = <<0, 0>>
    /\ Len(m.apples) = n_apples
    /\ Len(m.blocks) = n_blocks
    /\ \E paired \in BOOLEAN :
          \A j \in 1..2 :
             /\ ~m.snakes[j].dead
             /\ Snake_len(m.snakes[j]) = length
             /\ m.snakes[j].head.xy = get_starting_locations(paired)[1][3 - j]
             /\ m.snakes[j].head.dxdy = get_starting_locations(paired)[2][3 - j]

\* The step is one of a thread of an earlier round.
StaleStep ==
    /\ cur' = cur
    /\ Len(models') = Len(models)
    /\ \E r \in 1..(cur - 1) :
          kpc'[r] # kpc[r] \/ wpc'[r] # wpc[r] \/ models'[r] # models[r]

\* C10 (as claimed): every round starts in the initial configuration of its
\* mode, and no step of a thread of an earlier round changes the new world.
C10_FreshWorld ==
    [][/\ (main = "home" /\ main' = "play") => InitialConfiguration(models'[cur'])
       /\ StaleStep => models'[cur] = models[cur]]_vars


\* C11: with the threads interleaved statement by statement, the world never
\* holds fewer apples than the initial number (so never none), and the number
\* of blocks never goes down.
C11_ApplesAndBlocks ==
    /\ [](Len(models[cur].apples) >= n_apples /\ Len(models[cur].apples) > 0)
    /\ [][Len(models'[cur].blocks) >= Len(models[cur].blocks)]_vars

\* Two apples have been eaten and replaced, each by a thread that ran its
\* callback to the end.
C11_Witness ==
    /\ Len(models[cur].blocks) = n_blocks + 2
    /\ models[cur].scores = <<1, 1>>
    /\ wpc = << <<"test", "test">> >>

\* The statements of Apple.collision_callback after increment_score: while a
\* thread is at one of them its collision effect is in progress.
EffectStatements ==
    {"add_tail_piece", "add_apple", "remove_apple", "add_block",
     "switch_keymaps", "switch_head_colors", "switch_tail_colors"}

\* C12 (as claimed): whenever no collision effect is in progress, the number
\* of apples is the initial one and the number of blocks is the initial one
\* plus the sum of the two scores.
C12_NoLostUpdates ==
    (\A i \in 1..2 : wpc[1][i] \notin EffectStatements) =>
        /\ Len(models[cur].apples) = n_apples
        /\ Len(models[cur].blocks) =
              n_blocks + models[cur].scores[1] + models[cur].scores[2]

\* C13 (as claimed): no collision lookup of a movement thread runs while the
\* other thread is in the middle of an apple consumption: the new apple
\* appended and the eaten one not yet removed, or the apple replaced and the
\* block not yet added.
C13_ExclusiveReads ==
    [][\A j \in 1..2 :
          (wpc[1][j] = "lookup" /\ wpc'[1][j] = "callback") =>
             wpc[1][3 - j] \notin {"remove_apple", "add_block"}]_vars

\* Snake i is inside Snake.move: some piece has moved, the head has not.
MidMove(i) ==
    /\ wpc[1][i] = "move"
    /\ held[i].k < Len(models[cur].snakes[i].tail)

\* C14 (as claimed): while a snake is inside one move(), the other thread
\* makes no collision lookup and the key press thread does not change that
\* snake's heading.
C14_AtomicAdvance ==
    [][\A i \in 1..2 :
          MidMove(i) =>
             /\ ~(wpc[1][3 - i] = "lookup" /\ wpc'[1][3 - i] = "callback")
             /\ models'[cur].snakes[i].head.dxdy = models[cur].snakes[i].head.dxdy]_vars


\* The keymap, head colour and tail colour a snake holds.
Assignment(snake) ==
    [keymap |-> snake.keymap, head |-> snake.head.color, tail |-> tail_color(snake)]

\* Every tail segment of the snake has the snake's tail colour.
OneTailColor(snake) == \A k \in DOMAIN snake.tail : snake.tail[k].color = tail_color(snake)

\* C15: in switching mode a tick that eats an apple exchanges the two snakes'
\* keymaps, head colours and tail colours, and an even number of eaten apples
\* leaves the assignment the round started with; in the other modes a tick
\* that eats an apple changes no keymap and no colour; and in every mode all
\* tail segments of a snake, a new one included, have one colour.
C15_SwitchOnApple ==
    /\ [][\A i \in 1..2 :
            (Advanced(i) /\ hit_item(models, cur, i, cur).kind = "apple") =>
               LET m == models[cur]
                   n == models'[cur]
               IN IF m.switching
                  THEN /\ Assignment(n.snakes[1]) = Assignment(m.snakes[2])
                       /\ Assignment(n.snakes[2]) = Assignment(m.snakes[1])
                  ELSE /\ Assignment(n.snakes[1]) = Assignment(m.snakes[1])
                       /\ Assignment(n.snakes[2]) = Assignment(m.snakes[2])]_vars
    /\ [](\A j \in 1..2 : OneTailColor(models[cur].snakes[j]))
    /\ [](models[cur].switching =>
            LET even == (models[cur].scores[1] + models[cur].scores[2]) % 2 = 0
            IN \A j \in 1..2 :
                  Assignment(models[cur].snakes[j]) =
                     [keymap |-> PAIRED_KEY_MAPS[IF even THEN 3 - j ELSE j],
                      head |-> HEAD_COLORS[IF even THEN 3 - j ELSE j],
                      tail |-> TAIL_COLORS[IF even THEN 3 - j ELSE j]])

\* A switching round in which two apples have been eaten: the snake that
\* grew twice has the colours and the keymap it started with.
C15_Witness ==
    /\ models[cur].switching
    /\ models[cur].scores[1] + models[cur].scores[2] = 2
    /\ \E j \in 1..2 :
          /\ Len(models[cur].snakes[j].tail) = length + 1
          /\ models[cur].snakes[j].keymap = PAIRED_KEY_MAPS[3 - j]


\* A movement thread is inside Model.switch_snakes: the keymaps are
\* exchanged, the colours not yet (or only the head colours).
MidSwitch == \E i \in 1..2 : wpc[1][i] \in {"switch_head_colors", "switch_tail_colors"}

\* C16 (as claimed): the key press thread reads no snake's keymap while a
\* swap is half done, and no swap exchanges the keymaps between the two
\* snakes' turns of one key event.
C16_AtomicSwitch ==
    [][/\ (kpc[1] \in {"snake1", "snake2"} /\ kpc'[1] # kpc[1]) => ~MidSwitch
       /\ (\E i \in 1..2 : wpc[1][i] = "switch_keymaps" /\ wpc'[1][i] # "switch_keymaps")
             => kpc[1] # "snake2"]_vars


\* The model was built with the independent key maps.
IndependentKeys(m) ==
    {m.snakes[1].keymap, m.snakes[2].keymap} = Range(INDEPENDENT_KEY_MAPS)

\* The model holds the two paired key maps, in either order.
PairedKeys(m) ==
    {m.snakes[1].keymap, m.snakes[2].keymap} = Range(PAIRED_KEY_MAPS)

\* The snakes of m whose requested heading differs from the one in n.
Resteered(m, n) == {j \in 1..2 : n.snakes[j]._dxdy # m.snakes[j]._dxdy}

\* C17: a round holds either the independent key maps, whose key sets are
\* disjoint, so that a key event changes the requested heading of at most one
\* snake, or (paired and switching modes, swapped or not) the two paired key
\* maps, which have the same keys and give opposite deltas for each key, so
\* that after a key event the two requested headings are opposite.  The
\* snakes start with equal headings with the independent key maps and with
\* opposite headings with the paired ones.
C17_ModeKeymaps ==
    /\ [](LET m == models[cur]
              k1 == m.snakes[1].keymap
              k2 == m.snakes[2].keymap
          IN IF IndependentKeys(m)
             THEN ~m.switching /\ DOMAIN k1 \cap DOMAIN k2 = {}
             ELSE /\ PairedKeys(m)
                  /\ DOMAIN k1 = DOMAIN k2
                  /\ \A ch \in DOMAIN k1 : k1[ch] = Neg(k2[ch]))
    /\ [][keys' = keys + 1 =>
            LET m == models[cur]
                n == models'[cur]
            IN IF IndependentKeys(m)
               THEN Cardinality(Resteered(m, n)) <= 1
               ELSE /\ n.snakes[1]._dxdy = Neg(n.snakes[2]._dxdy)
                    /\ Cardinality(Resteered(m, n)) # 1]_vars
    /\ [](ticks = 0 /\ keys = 0 =>
            LET m == models[cur]
            IN /\ m.snakes[1]._dxdy = m.snakes[1].head.dxdy
               /\ m.snakes[2]._dxdy = m.snakes[2].head.dxdy
               /\ IF IndependentKeys(m)
                  THEN m.snakes[1].head.dxdy = m.snakes[2].head.dxdy
                  ELSE m.snakes[1].head.dxdy = Neg(m.snakes[2].head.dxdy))

\* A switching round after one swap and a direction key: the snakes hold the
\* paired key maps exchanged and their requested headings are horizontal and
\* opposite.
C17_Witness ==
    /\ models[cur].switching
    /\ models[cur].scores[1] + models[cur].scores[2] = 1
    /\ keys >= 1
    /\ models[cur].snakes[1].keymap = PAIRED_KEY_MAPS[1]
    /\ models[cur].snakes[1]._dxdy \in {LEFT, RIGHT}
    /\ models[cur].snakes[2]._dxdy = Neg(models[cur].snakes[1]._dxdy)


\* The positions of the flattened order after which no entity occupies the
\* same cell.
LastOnCell(flat) ==
    {k \in DOMAIN flat : \A k2 \in DOMAIN flat : k2 > k => flat[k2].xy # flat[k].xy}

\* C18: the map of a container holds, for every cell some member of the
\* flattened order occupies, the member that comes last on that cell in the
\* flattened order, nested containers flattened in place; after an append the
\* appended entity (or the last entity on each cell of an appended container)
\* is the entry of its cell and the other cells keep their entries; and
\* get_collision returns that entry, and none exactly when no member of the
\* flattened order occupies the cell asked about.
C18_LastWriteWins ==
    /\ [](LET flat == expand_viewables(group)
              locations == viewables_by_location(flat)
          IN /\ DOMAIN locations = {flat[k].xy : k \in DOMAIN flat}
             /\ \A k \in LastOnCell(flat) : locations[flat[k].xy] = flat[k])
    /\ [][op'.name = "append" =>
            LET new == expand_viewables(<<op'.arg>>)
                before == viewables_by_location(expand_viewables(group))
                after == viewables_by_location(expand_viewables(group'))
            IN /\ \A k \in LastOnCell(new) : after[new[k].xy] = new[k]
               /\ \A xy \in DOMAIN before :
                     (\A k \in DOMAIN new : new[k].xy # xy) =>
                         xy \in DOMAIN after /\ after[xy] = before[xy]]_vars
    /\ [][op'.name = "get_collision" =>
            LET flat == expand_viewables(group)
                on == {k \in DOMAIN flat : flat[k].xy = op'.arg.xy}
            IN IF on = {}
               THEN op'.result = NoHit
               ELSE op'.result = flat[Max(on)] /\ op'.result # NoHit]_vars

\* append(X) then append(C), both on cell (1, 2), and get_collision for that
\* cell has returned C.
C18_Witness ==
    /\ group = <<Viewable(1, <<1, 2>>), Viewable(2, <<1, 2>>)>>
    /\ op.name = "get_collision"
    /\ op.arg.xy = <<1, 2>>
    /\ op.result = Viewable(2, <<1, 2>>)

\* C20: remove(item) for an object that is not directly a member of the
\* container raises ValueError and leaves the members and the map as they
\* were; for a member it raises nothing and deletes the first position
\* holding the object, the other members keeping their order.
C20_RemoveErrors ==
    [][op'.name = "remove" =>
         LET item == op'.arg
         IN IF \A k \in DOMAIN group : group[k] # item
            THEN /\ op'.result.kind = "ValueError"
                 /\ group' = group
                 /\ viewables_by_location(expand_viewables(group'))
                       = viewables_by_location(expand_viewables(group))
            ELSE /\ op'.result.kind # "ValueError"
                 /\ \E i \in DOMAIN group :
                       /\ group[i] = item
                       /\ \A k \in 1..(i - 1) : group[k] # item
                       /\ group' = Without(group, i)]_vars

\* remove(item) has raised ValueError for an object that is in the flattened
\* order through a nested container but is not a member itself.
C20_Witness ==
    /\ op.name = "remove"
    /\ op.result.kind = "ValueError"
    /\ \E k \in DOMAIN expand_viewables(group) : expand_viewables(group)[k] = op.arg
    /\ \A k \in DOMAIN group : group[k] # op.arg


\* The head of the snake is on the cell of one of its tail segments.
HeadOnTail(snake) == \E k \in DOMAIN snake.tail : snake.tail[k].xy = snake.head.xy

\* C19 (as claimed): is_colliding_with_self() returns True when the head is
\* on the cell of one of the snake's tail segments and False otherwise.
C19_SelfCollision ==
    [][op'.name = "is_colliding_with_self" =>
         op'.arg = (IF HeadOnTail(test_snake) THEN "True" ELSE "False")]_vars


\* The collidable entities of model m on cell xy.
Sharing(m, xy) == {k \in DOMAIN collidable_objects(m) : collidable_objects(m)[k].xy = xy}

\* C21: a tick of a snake runs the effect of the one entity get_collision
\* returned, once: the score goes up by at most 1 and the length, the number
\* of blocks and the score go up together; the snake is never both dead and
\* scoring in one tick; with no entity returned nothing but the move happens;
\* and when the entity is a wall, a block or a tail segment, the state after
\* the tick is the state after the move with that snake's dead flag raised
\* and nothing else changed.
C21_OneEffect ==
    [][\A i \in 1..2 :
         Advanced(i) =>
            LET m == models[cur]
                n == models'[cur]
                hit == hit_item(models, cur, i, cur)
                ds == n.scores[i] - m.scores[i]
                dl == Len(n.snakes[i].tail) - Len(m.snakes[i].tail)
            IN /\ ds \in {0, 1}
               /\ dl = ds
               /\ Len(n.blocks) - Len(m.blocks) = ds
               /\ n.scores[3 - i] = m.scores[3 - i]
               /\ ~(n.snakes[i].dead /\ ds = 1)
               /\ hit.kind = "none" => ~n.snakes[i].dead /\ ds = 0
               /\ hit.kind = "apple" => ~n.snakes[i].dead /\ ds = 1
               /\ hit.kind \in {"wall", "block", "tail"} =>
                     /\ n.snakes[i] = [Snake_move(m.snakes[i]) EXCEPT !.dead = TRUE]
                     /\ n.snakes[3 - i] = m.snakes[3 - i]
                     /\ n.apples = m.apples
                     /\ n.blocks = m.blocks
                     /\ n.scores = m.scores
                     /\ n.switching = m.switching]_vars

\* A snake is dead on a cell that several collidable entities share.
C21_Witness ==
    \E i \in 1..2 :
       /\ models[cur].snakes[i].dead
       /\ Cardinality(Sharing(models[cur], models[cur].snakes[i].head.xy)) >= 2


\* The key press threads that have not left their loop.
InputWorkers == {r \in DOMAIN kpc : kpc[r] # "done"}

\* C22 (as claimed): at most one key press thread is alive at any moment, and
\* a key event is only ever consumed by the key press thread of the latest
\* round started.
C22_OneInputWorker ==
    /\ [](Cardinality(InputWorkers) <= 1)
    /\ [][\A r \in DOMAIN kpc :
            (kpc[r] = "getch" /\ kpc'[r] = "test") => r = Len(kpc)]_vars


\* The cell is strictly inside the bounding box.
Inside(xy) == xy[1] \in 1..(height - 1) /\ xy[2] \in 1..(width - 1)

\* C23: every apple and every block of the world lies strictly inside the
\* bounding box, on no cell of a wall.
C23_SpawnInside ==
    /\ \A k \in DOMAIN models[cur].apples :
          Inside(models[cur].apples[k]) /\ models[cur].apples[k] \notin Range(make_walls)
    /\ \A k \in DOMAIN models[cur].blocks :
          Inside(models[cur].blocks[k]) /\ models[cur].blocks[k] \notin Range(make_walls)

\* After an apple was eaten, the new apple and the new block lie on one cell,
\* which is also the cell of a segment of a snake.
C23_Witness ==
    /\ Len(models[cur].blocks) = n_blocks + 1
    /\ \E a \in DOMAIN models[cur].apples, b \in DOMAIN models[cur].blocks :
          /\ models[cur].apples[a] = models[cur].blocks[b]
          /\ \E j \in 1..2 : \E k \in DOMAIN models[cur].snakes[j].tail :
                models[cur].snakes[j].tail[k].xy = models[cur].apples[a]


\* C24: the heading of every head and of every tail segment is one of the
\* four unit deltas, and so is the heading each snake stores for itself; the
\* glyph of no segment is the stationary-piece error.
C24_NoStationaryPiece ==
    \A j \in 1..2 :
       LET snake == models[cur].snakes[j]
       IN /\ snake.head.dxdy \in Range(DIRECTIONS)
          /\ snake._dxdy \in Range(DIRECTIONS)
          /\ HeadPiece_icon(snake.head) # "Exception"
          /\ \A k \in DOMAIN snake.tail :
                /\ snake.tail[k].dxdy \in Range(DIRECTIONS)
                /\ TailPiece_icon(snake.tail[k]) # "Exception"

\* After key events, advances and a growth: a snake that has grown has
\* turned, its head and its last tail segment heading along different axes.
C24_Witness ==
    /\ keys >= 1
    /\ \E j \in 1..2 :
          LET snake == models[cur].snakes[j]
          IN /\ Len(snake.tail) = length
             /\ HeadPiece_icon(snake.head) \in {"<", ">"}
             /\ TailPiece_icon(snake.tail[Len(snake.tail)]) = "|"


\* C25: between heading changes, the speed of a snake is the vertical rate
\* exactly when its head's heading, along which the next move goes, is
\* vertical, and the horizontal rate otherwise.
C25_SpeedFollowsHead ==
    \A j \in 1..2 :
       LET snake == models[cur].snakes[j]
       IN /\ speed(snake) \in {VERTICAL_SPEED, HORIZONTAL_SPEED}
          /\ speed(snake) = VERTICAL_SPEED <=> snake.head.dxdy \in {UP, DOWN}
          /\ speed(snake) = HORIZONTAL_SPEED <=> snake.head.dxdy \in {LEFT, RIGHT}

\* A snake whose head rejected the last request: the heading the snake
\* stores is the opposite of the head's, after the snake has moved.
C25_Witness ==
    /\ ticks >= 1
    /\ \E j \in 1..2 :
          LET snake == models[cur].snakes[j]
          IN /\ snake._dxdy = Neg(snake.head.dxdy)
             /\ snake.head.dxdy \in {LEFT, RIGHT}
             /\ speed(snake) = HORIZONTAL_SPEED


\* A movement thread of the round has been ended by an exception.
Crashed == \E i \in 1..2 : wpc[1][i] = "ValueError"

\* C26 (as claimed): once a movement thread has been ended by an exception,
\* the round does not keep running: no movement thread finds its loop test
\* true and starts another pass.
C26_FatalEndsRound ==
    [][Crashed => \A j \in 1..2 : ~(wpc[1][j] = "test" /\ wpc'[1][j] = "move")]_vars


\* d taken k times.
Times(k, d) == <<k * d[1], k * d[2]>>

Distance(a, b) ==
    (IF a[1] >= b[1] THEN a[1] - b[1] ELSE b[1] - a[1])
      + (IF a[2] >= b[2] THEN a[2] - b[2] ELSE b[2] - a[2])

\* Each tail segment of the snake is one cell away from its leader.
Contiguous(snake) ==
    \A k \in DOMAIN snake.tail :
       Distance(snake.tail[k].xy, leader(snake.head, snake.tail, k).xy) = 1

\* C28: after construction and after every move(), heading change and
\* add_tail_piece(), each tail segment is at Manhattan distance 1 from the
\* segment ahead of it.
C28_Contiguous == Contiguous(test_snake)

\* A snake that has grown and has moved round a turn: its body has a bend.
C28_Witness ==
    /\ op.name = "move"
    /\ Snake_len(test_snake) = test_snake.length + 1
    /\ test_snake.tail[1].dxdy # test_snake.tail[Len(test_snake.tail)].dxdy


\* C29 (as claimed): after a move() every tail segment has the heading its
\* leader had before the call; for the first tail segment that is the
\* heading along which the head moved.
C29_TailTakesHeading ==
    [][op'.name = "move" =>
         \A k \in DOMAIN test_snake.tail :
            test_snake'.tail[k].dxdy = leader(test_snake.head, test_snake.tail, k).dxdy]_vars


\* C30 (as claimed): a snake that has left its starting cell never advances
\* onto the cell its head came from: the heading of an advance is not the
\* opposite of the heading of the snake's advance before it, whatever key
\* events came between the two.
C30_NoInstantReversal ==
    [][\A i \in 1..2 :
         (Advanced(i) /\ models[cur].snakes[i].head.xy # models[cur].snakes[i].xy) =>
            LET before == models[cur].snakes[i]
                after == models'[cur].snakes[i]
            IN Minus(after.head.xy, before.head.xy)
                  # Neg(Minus(before.head.xy, before.tail[1].xy))]_vars


\* The movement thread of snake i of round r has not been started, is
\* between two passes of its loop, or has left it.
BetweenTicks(r, i) == r \in DOMAIN wpc => wpc[r][i] \in {"test", "done"}

\* C31 (as claimed): whenever no tick of a snake is in progress, the snake is
\* dead or its head is strictly inside the bounding box, so a head on a wall
\* cell has been marked dead in the tick that took it there; and no head is
\* ever on the corner cell (height, width), which no wall covers.
C31_StaysInside ==
    \A r \in DOMAIN models : \A i \in DOMAIN models[r].snakes :
       /\ (BetweenTicks(r, i) /\ ~models[r].snakes[i].dead) =>
             Inside(models[r].snakes[i].head.xy)
       /\ models[r].snakes[i].head.xy # <<height, width>>


\* The cells of the segments of a snake, head first.
Cells_of(snake) == <<snake.head.xy>> \o [k \in DOMAIN snake.tail |-> snake.tail[k].xy]

\* A snake of the round has been marked dead.
SomeDead == \E j \in DOMAIN models[cur].snakes : models[cur].snakes[j].dead

\* C32: within a round, a snake that is dead stays dead and none of its
\* segments moves again; a head moves only in a pass of its movement loop
\* that is already past the loop test, and once a snake of the round is dead
\* no movement thread passes its loop test again, so every other snake
\* advances at most once more before its thread leaves the loop.
C32_DeathStopsMovement ==
    [][\A i \in 1..2 :
         LET before == models[cur].snakes[i]
             after == models'[cur].snakes[i]
         IN /\ before.dead => (after.dead /\ Cells_of(after) = Cells_of(before))
            /\ after.head.xy # before.head.xy =>
                  (wpc[1][i] = "move" /\ wpc'[1][i] = "lookup")
            /\ SomeDead => (wpc'[1][i] = "move" => wpc[1][i] = "move")
            /\ (SomeDead /\ wpc[1][i] = "test") => wpc'[1][i] \in {"test", "done"}]_vars

\* A snake is dead while the movement thread of the other one, which is
\* alive, is past its loop test and has yet to move its head.
C32_Witness ==
    \E i \in 1..2 : \E j \in (1..2) \ {i} :
       /\ models[cur].snakes[i].dead
       /\ ~models[cur].snakes[j].dead
       /\ wpc[1][i] = "done"
       /\ wpc[1][j] = "move"
       /\ held[j].k = 0


\* C33: whenever no collision effect of a snake is in progress, the score of
\* the snake is the number of segments it has now minus the number it was
\* built with.
C33_ScoreIsGrowth ==
    \A i \in DOMAIN models[cur].snakes :
       (cur \in DOMAIN wpc => wpc[cur][i] \notin EffectStatements) =>
          models[cur].scores[i] =
             Snake_len(models[cur].snakes[i]) - models[cur].snakes[i].length

\* Both snakes have eaten the one apple in overlapping ticks: each has one
\* point and one more segment, and the thread that removed the apple second
\* was ended by the ValueError.
C33_Witness ==
    /\ \E i \in 1..2 : wpc[1][i] = "ValueError" /\ wpc[1][3 - i] = "test"
    /\ \A i \in 1..2 :
          /\ models[cur].scores[i] = 1
          /\ Snake_len(models[cur].snakes[i]) = models[cur].snakes[i].length + 1

====
